---- MODULE Spec2Model ----
(***************************************************************************)
(* Model of download.py: the incremental crawl-and-ingest pipeline that    *)
(* walks the CENACE FTP tree and loads new readings into PostgreSQL.       *)
(*                                                                         *)
(* Text (file names, directory names, dates) is a sequence of one-char     *)
(* strings, so that lower(), split('_'), startswith(), endswith() and      *)
(* strptime() are computed, not assumed.                                   *)
(***************************************************************************)
EXTENDS Integers, Sequences, FiniteSets, TLC

(***************************************************************************)
(* Text helpers                                                            *)
(***************************************************************************)
Digitos == <<"0", "1", "2", "3", "4", "5", "6", "7", "8", "9">>

Mayusculas == <<"A", "B", "C", "D", "E", "F", "G", "H", "I", "J", "K", "L", "M",
                "N", "O", "P", "Q", "R", "S", "T", "U", "V", "W", "X", "Y", "Z">>

Minusculas == <<"a", "b", "c", "d", "e", "f", "g", "h", "i", "j", "k", "l", "m",
                "n", "o", "p", "q", "r", "s", "t", "u", "v", "w", "x", "y", "z">>

EsDigito(c) == \E i \in 1..Len(Digitos) : Digitos[i] = c

ValorDigito(c) == (CHOOSE i \in 1..Len(Digitos) : Digitos[i] = c) - 1

\* str.lower() on one character
MinusculaDe(c) ==
    IF \E i \in 1..Len(Mayusculas) : Mayusculas[i] = c
    THEN Minusculas[CHOOSE i \in 1..Len(Mayusculas) : Mayusculas[i] = c]
    ELSE c

\* str.lower()
lower(s) == [i \in 1..Len(s) |-> MinusculaDe(s[i])]

\* str.startswith(prefijo)
startswith(s, prefijo) ==
    /\ Len(s) >= Len(prefijo)
    /\ SubSeq(s, 1, Len(prefijo)) = prefijo

\* str.endswith(sufijo)
endswith(s, sufijo) ==
    /\ Len(s) >= Len(sufijo)
    /\ SubSeq(s, Len(s) - Len(sufijo) + 1, Len(s)) = sufijo

\* sep in s, for a one-character separator
Contiene(s, sep) == \E i \in 1..Len(s) : s[i] = sep

\* str.split(sep) for a one-character separator: empty parts are kept
RECURSIVE split(_, _)
split(s, sep) ==
    IF ~Contiene(s, sep)
    THEN <<s>>
    ELSE LET i == CHOOSE j \in 1..Len(s) :
                      s[j] = sep /\ \A k \in 1..(j - 1) : s[k] # sep
         IN  <<SubSeq(s, 1, i - 1)>> \o split(SubSeq(s, i + 1, Len(s)), sep)

\* ' '.join(partes)
RECURSIVE join(_)
join(partes) ==
    IF Len(partes) = 0 THEN <<>>
    ELSE IF Len(partes) = 1 THEN partes[1]
    ELSE partes[1] \o <<" ">> \o join(Tail(partes))

\* The text of a decimal number of exactly n digits
RECURSIVE Cifras(_, _)
Cifras(v, n) ==
    IF n = 0 THEN <<>> ELSE Cifras(v \div 10, n - 1) \o <<Digitos[(v % 10) + 1]>>

RECURSIVE NumeroDe(_)
NumeroDe(s) ==
    IF Len(s) = 0 THEN 0
    ELSE 10 * NumeroDe(SubSeq(s, 1, Len(s) - 1)) + ValorDigito(s[Len(s)])

(***************************************************************************)
(* datetime.strptime                                                       *)
(*                                                                         *)
(* A format is a sequence of items: a directive ("Y", "m", "d", "H", "M",  *)
(* "S") or a literal character.  As in CPython's _strptime, the format is  *)
(* a regular expression matched from the start of the text with            *)
(* backtracking (two-digit alternatives before one-digit ones); text left  *)
(* over after the match, or a calendar date that does not exist, raises    *)
(* ValueError.                                                             *)
(***************************************************************************)
Dir(d) == [dir |-> d]

Lit(c) == [lit |-> c]

EsDirectiva(it) == "dir" \in DOMAIN it

\* widths a directive tries, in the order of the regex alternatives
Anchos(d) == IF d = "Y" THEN <<4>> ELSE <<2, 1>>

\* value range a directive accepts for a given width
Acepta(d, ancho, v) ==
    CASE d = "Y" -> TRUE
      [] d = "m" -> IF ancho = 2 THEN v \in 1..12 ELSE v \in 1..9
      [] d = "d" -> IF ancho = 2 THEN v \in 1..31 ELSE v \in 1..9
      [] d = "H" -> IF ancho = 2 THEN v \in 0..23 ELSE v \in 0..9
      [] d = "M" -> IF ancho = 2 THEN v \in 0..59 ELSE v \in 0..9
      [] d = "S" -> IF ancho = 2 THEN v \in 0..61 ELSE v \in 0..9

NoCoincide == [ok |-> FALSE]

CamposIniciales == [Y |-> 1900, m |-> 1, d |-> 1, H |-> 0, M |-> 0, S |-> 0]

TodosDigitos(s) == \A i \in 1..Len(s) : EsDigito(s[i])

RECURSIVE Coincidir(_, _, _, _, _)
RECURSIVE ProbarAnchos(_, _, _, _, _, _)
Coincidir(fmt, k, s, i, campos) ==
    IF k > Len(fmt)
    THEN [ok |-> TRUE, fin |-> i, campos |-> campos]
    ELSE IF EsDirectiva(fmt[k])
    THEN ProbarAnchos(fmt, k, s, i, campos, 1)
    ELSE IF i <= Len(s) /\ s[i] = fmt[k].lit
    THEN Coincidir(fmt, k + 1, s, i + 1, campos)
    ELSE NoCoincide

ProbarAnchos(fmt, k, s, i, campos, a) ==
    LET d == fmt[k].dir
        anchos == Anchos(d)
    IN  IF a > Len(anchos) THEN NoCoincide
        ELSE LET w == anchos[a]
                 trozo == IF i + w - 1 <= Len(s) THEN SubSeq(s, i, i + w - 1) ELSE <<>>
                 cabe == Len(trozo) = w /\ TodosDigitos(trozo)
                 v == IF cabe THEN NumeroDe(trozo) ELSE 0
                 resto == IF cabe /\ Acepta(d, w, v)
                          THEN Coincidir(fmt, k + 1, s, i + w, [campos EXCEPT ![d] = v])
                          ELSE NoCoincide
             IN  IF resto.ok THEN resto
                 ELSE ProbarAnchos(fmt, k, s, i, campos, a + 1)

EsBisiesto(y) == (y % 4 = 0 /\ y % 100 # 0) \/ y % 400 = 0

DiasDelMes(y, m) ==
    IF m = 2 THEN (IF EsBisiesto(y) THEN 29 ELSE 28)
    ELSE IF m \in {4, 6, 9, 11} THEN 30 ELSE 31

\* datetime.strptime(s, fmt): [ok |-> FALSE] stands for ValueError
strptime(s, fmt) ==
    LET r == Coincidir(fmt, 1, s, 1, CamposIniciales)
    IN  IF ~r.ok THEN NoCoincide
        ELSE IF r.fin # Len(s) + 1 THEN NoCoincide
        ELSE IF r.campos.Y < 1 \/ r.campos.d > DiasDelMes(r.campos.Y, r.campos.m)
                \/ r.campos.S > 59
        THEN NoCoincide
        ELSE [ok |-> TRUE,
              dt |-> <<r.campos.Y, r.campos.m, r.campos.d,
                       r.campos.H, r.campos.M, r.campos.S>>]

\* '%Y%m%d'
FormatoArchivo == <<Dir("Y"), Dir("m"), Dir("d")>>

\* '%Y-%m-%d %H:%M:%S'
FormatoRegistro == <<Dir("Y"), Lit("-"), Dir("m"), Lit("-"), Dir("d"), Lit(" "),
                     Dir("H"), Lit(":"), Dir("M"), Lit(":"), Dir("S")>>

\* datetime.date()
date(dt) == <<dt[1], dt[2], dt[3]>>

\* lexicographic order of date / datetime tuples of equal length
RECURSIVE Menor(_, _)
Menor(a, b) ==
    IF Len(a) = 0 THEN FALSE
    ELSE IF a[1] # b[1] THEN a[1] < b[1]
    ELSE Menor(Tail(a), Tail(b))

Mayor(a, b) == Menor(b, a)

MayorOIgual(a, b) == ~Menor(a, b)

\* None (also SQL NULL): the empty tuple, so that it can be compared with texts
\* and datetimes, which are never empty
None == <<>>

(***************************************************************************)
(* es_directorio_excluido, es_archivo_reciente                             *)
(***************************************************************************)
historica == <<"h", "i", "s", "t", "o", "r", "i", "c", "a">>

\* a comparison that forgets lower()
es_directorio_excluido_exacto(nombre) == nombre = historica

es_directorio_excluido(nombre) == lower(nombre) = historica

Prefijo202 == <<"2", "0", "2">>

\* first part of the name that starts with '202', or 0
PrimeraParte202(partes) ==
    IF \E i \in 1..Len(partes) : startswith(partes[i], Prefijo202)
    THEN CHOOSE i \in 1..Len(partes) :
             /\ startswith(partes[i], Prefijo202)
             /\ \A j \in 1..(i - 1) : ~startswith(partes[j], Prefijo202)
    ELSE 0

es_archivo_reciente(nombre_archivo, ultima_fecha) ==
    IF ultima_fecha = None THEN TRUE
    ELSE IF ~Contiene(nombre_archivo, "_") THEN TRUE
    ELSE LET partes == split(nombre_archivo, "_")
             p == PrimeraParte202(partes)
         IN  IF p = 0 THEN TRUE
             ELSE LET fecha_archivo == strptime(partes[p], FormatoArchivo)
                  IN  IF ~fecha_archivo.ok THEN TRUE
                      ELSE MayorOIgual(date(fecha_archivo.dt), date(ultima_fecha))

(***************************************************************************)
(* JSON payloads and records                                               *)
(***************************************************************************)
\* a JSON object with the three keys of the remote format
Dato(fecha, nombre, valor) ==
    [dict |-> TRUE, v |-> [Date |-> fecha, N_Common |-> nombre, Value |-> valor]]

\* a JSON object without the "Date" key
DatoSinFecha(nombre, valor) ==
    [dict |-> TRUE, v |-> [N_Common |-> nombre, Value |-> valor]]

\* a JSON element that is not an object (a number)
NoDict == [dict |-> FALSE]

\* dict.get(clave)
get(dato, clave) == IF clave \in DOMAIN dato.v THEN dato.v[clave] ELSE None

\* bytes that are not UTF-8 or not JSON
PayloadInvalido == [json |-> FALSE]

\* a JSON document whose top level is an object
PayloadObjeto == [json |-> TRUE, es_lista |-> FALSE]

\* a JSON document whose top level is a list
PayloadLista(datos) == [json |-> TRUE, es_lista |-> TRUE, datos |-> datos]

\* procesar_archivo_json: [] for anything that is not a JSON list
procesar_archivo_json(contenido) ==
    IF ~contenido.json THEN <<>>
    ELSE IF ~contenido.es_lista THEN <<>>
    ELSE contenido.datos

\* float(valor_texto) followed by round(., 3), in thousandths;
\* [ok |-> FALSE] stands for ValueError
float_round3(texto) ==
    LET partes == split(texto, ".")
        entera == partes[1]
        decimal == IF Len(partes) = 2 THEN partes[2] ELSE <<>>
        d4 == SubSeq(decimal \o <<"0", "0", "0", "0">>, 1, 4)
    IN  IF Len(partes) > 2 \/ ~TodosDigitos(entera) \/ ~TodosDigitos(decimal)
           \/ Len(entera) + Len(decimal) = 0
        THEN [ok |-> FALSE]
        ELSE [ok |-> TRUE,
              valor |-> NumeroDe(entera) * 1000 + NumeroDe(SubSeq(d4, 1, 3))
                        + (IF ValorDigito(d4[4]) >= 5 THEN 1 ELSE 0)]

\* coordinates in units of 1e-7 degree
coordenadas_estaciones ==
    ("Agoyan" :> <<-13977000, -783829000>>)
    @@ ("Coca Codo Sinclair" :> <<-1989618, -776827073>>)
    @@ ("Delsitanisagua" :> <<-39803410, -790169830>>)
    @@ ("Mazar" :> <<-25972000, -786221000>>)
    @@ ("M_S_Francisco" :> <<-33150547, -794821319>>)
    @@ ("Pisayambo" :> <<-10744510, -783968000>>)
    @@ ("Daule_Peripa" :> <<-9269476, -797482363>>)
    @@ ("Amaluza" :> <<-25859180, -785583440>>)
    @@ ("Amaluza_Total" :> <<-25859180, -785583440>>)
    @@ ("Amaluza_Laterales" :> <<-25859180, -785583440>>)

\* the dictionary filled by cargar_coordenadas_manual
estaciones == coordenadas_estaciones

(***************************************************************************)
(* Sample texts                                                            *)
(***************************************************************************)
FechaTexto(Y, m, d, H, M, S) ==
    Cifras(Y, 4) \o <<"-">> \o Cifras(m, 2) \o <<"-">> \o Cifras(d, 2) \o <<" ">>
    \o Cifras(H, 2) \o <<":">> \o Cifras(M, 2) \o <<":">> \o Cifras(S, 2)

cenace == <<"c", "e", "n", "a", "c", "e">>

caudales == <<"c", "a", "u", "d", "a", "l", "e", "s">>

niveles == <<"n", "i", "v", "e", "l", "e", "s">>

nivel == <<"n", "i", "v", "e", "l">>

anio2026 == <<"2", "0", "2", "6">>

punto_json == <<".", "j", "s", "o", "n">>

HISTORICA == <<"H", "I", "S", "T", "O", "R", "I", "C", "A">>

enero == <<"e", "n", "e", "r", "o">>

\* 'caudales_20260102.json': the remote tree's form
NombreConFecha(prefijo, aaaammdd) ==
    prefijo \o <<"_">> \o Cifras(aaaammdd, 8) \o punto_json

\* 'caudales_20260102_h.json': the date is a segment of its own
NombreConFechaYSufijo(prefijo, aaaammdd) ==
    prefijo \o <<"_">> \o Cifras(aaaammdd, 8) \o <<"_", "h">> \o punto_json

datos_json == <<"d", "a", "t", "o", "s">> \o punto_json

leeme_txt == <<"l", "e", "e", "m", "e", ".", "t", "x", "t">>

V12500 == <<"1", "2", ".", "5", "0", "0">>

V7 == <<"7">>

Vabc == <<"a", "b", "c">>

Tjunk == <<"n", "/", "a">>

\* timestamps around the baseline 2026-01-01 12:00:00
TBase == FechaTexto(2026, 1, 1, 12, 0, 0)

TViejo == FechaTexto(2026, 1, 1, 11, 59, 59)

TAnterior == FechaTexto(2025, 12, 31, 8, 0, 0)

TDic30 == FechaTexto(2025, 12, 30, 8, 0, 0)

TMasUno == FechaTexto(2026, 1, 1, 12, 0, 1)

TNuevo == FechaTexto(2026, 1, 2, 0, 0, 0)

TNuevo2 == FechaTexto(2026, 1, 3, 6, 30, 0)

(***************************************************************************)
(* Remote trees                                                            *)
(*                                                                         *)
(* A path is a sequence of names.  A tree maps each directory path to the  *)
(* lines of its LIST output and each file path to its payload.  A line is  *)
(* the sequence of its whitespace-separated fields (linea.split()).        *)
(***************************************************************************)
T2024 == FechaTexto(2024, 1, 15, 0, 0, 0)

Campo == <<"1">>

LineaDir(nombre) ==
    <<<<"d", "r", "w", "x">>, Campo, Campo, Campo, Campo, Campo, Campo, Campo, nombre>>

LineaArchivo(nombre) ==
    <<<<"-", "r", "w", "-">>, Campo, Campo, Campo, Campo, Campo, Campo, Campo, nombre>>

\* 'total 0'
LineaCorta == <<<<"t", "o", "t", "a", "l">>, <<"0">>>>

RaizCaudales == <<cenace, caudales, anio2026>>

RaizNiveles == <<cenace, niveles, anio2026>>

a_ == <<"a">>

b_ == <<"b">>

c_ == <<"c">>

d_ == <<"d">>

e_ == <<"e">>

f_ == <<"f">>

inv_json == <<"i", "n", "v">> \o punto_json

obj_json == <<"o", "b", "j">> \o punto_json

m1_json == <<"m", "1">> \o punto_json

m2_json == <<"m", "2">> \o punto_json

\* exclusion at two depths and in three spellings, file names with dates
Arbol1 ==
    [dirs |->
        (<<>> :> <<LineaDir(cenace)>>)
        @@ (<<cenace>> :> <<LineaDir(caudales), LineaDir(niveles)>>)
        @@ (<<cenace, caudales>> :> <<LineaDir(anio2026)>>)
        @@ (RaizCaudales :>
              <<LineaCorta,
                LineaDir(HISTORICA),
                LineaDir(enero),
                LineaArchivo(NombreConFechaYSufijo(caudales, 20251230)),
                LineaArchivo(leeme_txt),
                LineaArchivo(NombreConFecha(caudales, 20251231)),
                LineaArchivo(NombreConFecha(caudales, 20260102))>>)
        @@ (RaizCaudales \o <<HISTORICA>> :>
              <<LineaArchivo(NombreConFecha(caudales, 20260103))>>)
        @@ (RaizCaudales \o <<enero>> :>
              <<LineaDir(historica),
                LineaArchivo(NombreConFechaYSufijo(caudales, 20260102))>>)
        @@ (RaizCaudales \o <<enero, historica>> :>
              <<LineaDir(a_), LineaArchivo(datos_json)>>)
        @@ (RaizCaudales \o <<enero, historica, a_>> :>
              <<LineaArchivo(datos_json)>>)
        @@ (<<cenace, niveles>> :> <<LineaDir(anio2026)>>)
        @@ (RaizNiveles :> <<LineaArchivo(NombreConFecha(nivel, 20260102))>>),
     archivos |->
        (RaizCaudales \o <<NombreConFechaYSufijo(caudales, 20251230)>> :>
              PayloadLista(<<Dato(TDic30, "Agoyan", V7)>>))
        @@ (RaizCaudales \o <<NombreConFecha(caudales, 20251231)>> :>
              PayloadLista(<<Dato(TAnterior, "Mazar", V7)>>))
        @@ (RaizCaudales \o <<NombreConFecha(caudales, 20260102)>> :>
              PayloadLista(<<Dato(TBase, "Agoyan", V7),
                             Dato(TMasUno, "Agoyan", V12500),
                             Dato(TViejo, "Agoyan", V7),
                             Dato(TNuevo, "Represa X", V7)>>))
        @@ (RaizCaudales \o <<HISTORICA, NombreConFecha(caudales, 20260103)>> :>
              PayloadLista(<<Dato(TNuevo2, "Mazar", V7)>>))
        @@ (RaizCaudales \o <<enero, NombreConFechaYSufijo(caudales, 20260102)>> :>
              PayloadLista(<<Dato(TNuevo, "Mazar", V7)>>))
        @@ (RaizCaudales \o <<enero, historica, datos_json>> :>
              PayloadLista(<<Dato(TNuevo2, "Agoyan", V7)>>))
        @@ (RaizCaudales \o <<enero, historica, a_, datos_json>> :>
              PayloadLista(<<Dato(TNuevo2, "Pisayambo", V7)>>))
        @@ (RaizNiveles \o <<NombreConFecha(nivel, 20260102)>> :>
              PayloadLista(<<Dato(TNuevo, "Mazar", V7)>>))]

\* a chain a/b/c/d/e/f below the walk's root: e is at depth 5, f at depth 6
Arbol2 ==
    [dirs |->
        (<<>> :> <<LineaDir(cenace)>>)
        @@ (<<cenace>> :> <<LineaDir(caudales), LineaDir(niveles)>>)
        @@ (<<cenace, caudales>> :> <<LineaDir(anio2026)>>)
        @@ (RaizCaudales :> <<LineaDir(a_), LineaArchivo(datos_json)>>)
        @@ (RaizCaudales \o <<a_>> :> <<LineaDir(b_)>>)
        @@ (RaizCaudales \o <<a_, b_>> :> <<LineaDir(c_)>>)
        @@ (RaizCaudales \o <<a_, b_, c_>> :> <<LineaDir(d_)>>)
        @@ (RaizCaudales \o <<a_, b_, c_, d_>> :> <<LineaDir(e_)>>)
        @@ (RaizCaudales \o <<a_, b_, c_, d_, e_>> :>
              <<LineaDir(f_), LineaArchivo(datos_json)>>)
        @@ (RaizCaudales \o <<a_, b_, c_, d_, e_, f_>> :>
              <<LineaArchivo(datos_json)>>)
        @@ (<<cenace, niveles>> :> <<>>),
     archivos |->
        (RaizCaudales \o <<datos_json>> :>
              PayloadLista(<<Dato(TNuevo, "Agoyan", V7)>>))
        @@ (RaizCaudales \o <<a_, b_, c_, d_, e_, datos_json>> :>
              PayloadLista(<<Dato(TMasUno, "Mazar", V7)>>))
        @@ (RaizCaudales \o <<a_, b_, c_, d_, e_, f_, datos_json>> :>
              PayloadLista(<<Dato(TNuevo2, "Mazar", V7)>>))]

\* undecodable and malformed payloads; no branch for the level dataset
Arbol3 ==
    [dirs |->
        (<<>> :> <<LineaDir(cenace)>>)
        @@ (<<cenace>> :> <<LineaDir(caudales)>>)
        @@ (<<cenace, caudales>> :> <<LineaDir(anio2026)>>)
        @@ (RaizCaudales :>
              <<LineaArchivo(inv_json),
                LineaArchivo(obj_json),
                LineaArchivo(m1_json),
                LineaArchivo(m2_json)>>),
     archivos |->
        (RaizCaudales \o <<inv_json>> :> PayloadInvalido)
        @@ (RaizCaudales \o <<obj_json>> :> PayloadObjeto)
        @@ (RaizCaudales \o <<m1_json>> :>
              PayloadLista(<<Dato(Tjunk, "Agoyan", V7),
                             Dato(TNuevo, "Agoyan", V12500),
                             NoDict>>))
        @@ (RaizCaudales \o <<m2_json>> :>
              PayloadLista(<<Dato(TMasUno, "Mazar", V7),
                             Dato(TNuevo2, "Mazar", None),
                             Dato(TNuevo, "Mazar", Vabc),
                             DatoSinFecha("Mazar", V7)>>))]

\* one file per dataset with one record each: a station of the registry and
\* a station the registry does not know
Arbol4 ==
    [dirs |->
        (<<>> :> <<LineaDir(cenace)>>)
        @@ (<<cenace>> :> <<LineaDir(caudales), LineaDir(niveles)>>)
        @@ (<<cenace, caudales>> :> <<LineaDir(anio2026)>>)
        @@ (<<cenace, niveles>> :> <<LineaDir(anio2026)>>)
        @@ (RaizCaudales :> <<LineaArchivo(NombreConFecha(caudales, 20240115))>>)
        @@ (RaizNiveles :> <<LineaArchivo(NombreConFecha(niveles, 20240115))>>),
     archivos |->
        (RaizCaudales \o <<NombreConFecha(caudales, 20240115)>> :>
              PayloadLista(<<Dato(T2024, "Agoyan", V12500)>>))
        @@ (RaizNiveles \o <<NombreConFecha(niveles, 20240115)>> :>
              PayloadLista(<<Dato(T2024, "Represa X", V7)>>))]

Arboles == <<Arbol1, Arbol2, Arbol3, Arbol4>>

(***************************************************************************)
(* Bounds                                                                  *)
(***************************************************************************)
\* failures the environment may inject over all runs (database, FTP)
MaxFallos == 1

\* runs of main() against the same remote tree
MaxCorridas == 2

\* default of explorar_directorio's max_profundidad
max_profundidad == 5

(***************************************************************************)
(* State                                                                   *)
(***************************************************************************)
VARIABLES
    arbol,                  \* index in Arboles of the remote tree
    corrida,                \* number of the current run of main()
    pc,                     \* position in main() and the functions it calls
    tipo,                   \* dataset being walked: "caudales" or "nivel"
    conn,                   \* database connection: "ninguna", "abierta", "cerrada"
    cwd,                    \* working directory of the FTP session
    pila,                   \* frames of explorar_directorio, innermost last
    profundidad,            \* argument of the pending explorar_directorio call
    ultima_fecha,           \* ultima_fecha_caudales / ultima_fecha_nivel
    tabla,                  \* committed rows of temporales.caudales / .nivel
    tx,                     \* rows written by the connection's open transaction
    lote,                   \* datos of the running insertar_datos call
    k,                      \* index in lote of the next record
    archivo,                \* path of the file the lote comes from
    registros_insertados,
    registros_fallidos,
    resultado,              \* outcome of each record of the lote so far
    filas_previas,          \* rows of the table when insertar_datos was called
    fallos,                 \* failures injected so far
    visitados,              \* <<run, directory>> the session changed into in a walk
    listados,               \* <<run, directory>> listed by explorar_directorio
    excluidos,              \* <<run, directory>> skipped by the exclusion rule
    abandonados,            \* <<run, directory>> left because of the depth bound
    procesados,             \* <<run, file>> passed to procesar_archivo_ftp
    omitidos,               \* <<run, file>> rejected by es_archivo_reciente
    descargados,            \* <<run, file>> retrieved
    manejadas,              \* <<run, directory, line>> handled by the loop
    entregados,             \* records handed to insertar_datos
    persistidos,            \* records whose row was committed
    rechazados,             \* records whose INSERT the database refused
    inyectados,             \* <<run, kind>> of the injected failures
    lineaBase,              \* per run, the baselines read before the walks
    abortada,               \* a failed statement left the transaction aborted
    lecturas,               \* the calls of obtener_ultima_fecha and their outcome
    esquema,                \* data_type of Latitud / Longitud of each table
    guardia                 \* per run, what modificar_tablas saw, did and returned

varsCtl == <<arbol, corrida, pc, tipo, conn>>

varsFtp == <<cwd, pila, profundidad>>

varsBd == <<ultima_fecha, tabla, tx, abortada>>

varsLote == <<lote, k, archivo, registros_insertados, registros_fallidos, resultado,
              filas_previas>>

varsRecorrido == <<visitados, listados, excluidos, abandonados, procesados,
                   omitidos, descargados, manejadas>>

varsRegistros == <<entregados, persistidos, rechazados>>

varsEsquema == <<esquema, guardia>>

vars == <<varsCtl, varsFtp, varsBd, varsLote, varsRecorrido, varsRegistros,
          fallos, inyectados, lineaBase, lecturas, varsEsquema>>

FS == Arboles[arbol]

Tipos == {"caudales", "nivel"}

\* remote directory of a dataset
DirDe(t) == IF t = "caudales" THEN caudales ELSE niveles

\* the walk's root of a dataset
RaizDe(t) == <<cenace, DirDe(t), anio2026>>

\* a row already in the table before the first run
FilaInicial ==
    [Latitud |-> 0, Longitud |-> 0, nombre_estacion |-> "Agoyan",
     fecha_toma_dato |-> strptime(TBase, FormatoRegistro).dt, valor_1h |-> 1000]

\* data_type values of information_schema.columns
double_precision ==
    <<"d", "o", "u", "b", "l", "e", " ", "p", "r", "e", "c", "i", "s", "i", "o", "n">>

numeric == <<"n", "u", "m", "e", "r", "i", "c">>

TiposDeColumna == {double_precision, numeric}

Columnas == [latitud : TiposDeColumna, longitud : TiposDeColumna]

\* both tables with both columns of the given type
EsquemaUniforme(tipo_columna) ==
    [t \in Tipos |-> [latitud |-> tipo_columna, longitud |-> tipo_columna]]

\* everything of the initial state but the column types
InitComun ==
    /\ arbol \in 1..Len(Arboles)
    /\ corrida = 1
    /\ pc = "inicio"
    /\ tipo = "caudales"
    /\ conn = "ninguna"
    /\ cwd = <<>>
    /\ pila = <<>>
    /\ profundidad = 0
    /\ ultima_fecha = [t \in Tipos |-> None]
    /\ tabla \in [Tipos -> {<<>>, <<FilaInicial>>}]
    /\ tx = <<>>
    /\ lote = <<>>
    /\ k = 1
    /\ archivo = <<>>
    /\ registros_insertados = 0
    /\ registros_fallidos = 0
    /\ resultado = <<>>
    /\ filas_previas = 0
    /\ fallos = 0
    /\ visitados = {}
    /\ listados = {}
    /\ excluidos = {}
    /\ abandonados = {}
    /\ procesados = {}
    /\ omitidos = {}
    /\ descargados = {}
    /\ manejadas = {}
    /\ entregados = {}
    /\ persistidos = {}
    /\ rechazados = {}
    /\ inyectados = {}
    /\ lineaBase = <<>>
    /\ abortada = FALSE
    /\ lecturas = {}
    /\ guardia = <<>>

\* the tables as created, with numeric coordinates: the first run widens
\* them and the next run finds them widened
Init ==
    /\ InitComun
    /\ esquema = EsquemaUniforme(numeric)

\* any combination of column types of the two tables, both with a row
InitEsquema ==
    /\ InitComun
    /\ tabla = [t \in Tipos |-> <<FilaInicial>>]
    /\ esquema \in [Tipos -> Columnas]

\* the environment injects a failure of the given kind
Inyectar(clase) ==
    /\ fallos < MaxFallos
    /\ fallos' = fallos + 1
    /\ inyectados' = inyectados \cup {<<corrida, clase>>}

SinFallo == UNCHANGED <<fallos, inyectados>>

(***************************************************************************)
(* main: database connection and baselines                                 *)
(***************************************************************************)
\* conectar_bd returns a connection
ConectarBD ==
    /\ pc = "inicio"
    /\ conn' = "abierta"
    /\ pc' = "modificar"
    /\ SinFallo
    /\ UNCHANGED <<arbol, varsEsquema, corrida, tipo, varsFtp, varsBd, varsLote, varsRecorrido,
                   varsRegistros, lineaBase, lecturas>>

\* conectar_bd returns None and main returns
ConectarBDFalla ==
    /\ pc = "inicio"
    /\ Inyectar("bd")
    /\ conn' = "ninguna"
    /\ pc' = "fin"
    /\ UNCHANGED <<arbol, varsEsquema, corrida, tipo, varsFtp, varsBd, varsLote, varsRecorrido,
                   varsRegistros, lineaBase, lecturas>>

(***************************************************************************)
(* modificar_tablas                                                        *)
(***************************************************************************)
\* the SELECT of information_schema.columns for temporales.caudales.latitud
data_type == esquema["caudales"].latitud

\* the condition of the if: the column read is not double precision yet
DebeAlterar == lower(data_type) # double_precision

\* ALTER TABLE temporales.<t> ALTER COLUMN Latitud ..., ALTER COLUMN Longitud ...
AlterTable(esq, t) ==
    [esq EXCEPT ![t] = [latitud |-> double_precision, longitud |-> double_precision]]

\* what a call of modificar_tablas saw, issued and returned
Anotar(retorno, alters, despues) ==
    Append(guardia, [corrida |-> corrida, antes |-> esquema, despues |-> despues,
                     alters |-> alters, retorno |-> retorno])

\* the column read is not double precision: both tables altered, commit
ModificarTablasAlter ==
    /\ pc = "modificar"
    /\ DebeAlterar
    /\ esquema' = AlterTable(AlterTable(esquema, "caudales"), "nivel")
    /\ guardia' = Anotar(TRUE, 2, esquema')
    /\ pc' = "ultima_caudales"
    /\ SinFallo
    /\ UNCHANGED <<arbol, corrida, tipo, conn, varsFtp, varsBd, varsLote, varsRecorrido,
                   varsRegistros, lineaBase, lecturas>>

\* the column read is double precision already: no statement is issued
ModificarTablasSinCambio ==
    /\ pc = "modificar"
    /\ ~DebeAlterar
    /\ guardia' = Anotar(TRUE, 0, esquema)
    /\ pc' = "ultima_caudales"
    /\ SinFallo
    /\ UNCHANGED <<arbol, corrida, tipo, conn, varsFtp, varsBd, varsLote, varsRecorrido,
                   varsRegistros, lineaBase, lecturas, esquema>>

\* the SELECT, an ALTER or the commit raises: rollback undoes the ALTERs of
\* the transaction, the function returns False and main goes on
ModificarTablasFalla ==
    /\ pc = "modificar"
    /\ Inyectar("alter")
    /\ \E emitidos \in (IF DebeAlterar THEN 0..2 ELSE {0}) :
          guardia' = Anotar(FALSE, emitidos, esquema)
    /\ pc' = "ultima_caudales"
    /\ UNCHANGED <<arbol, corrida, tipo, conn, varsFtp, varsBd, varsLote, varsRecorrido,
                   varsRegistros, lineaBase, lecturas, esquema>>

\* the set of non-NULL timestamps of a table
Fechas(filas) ==
    {filas[j].fecha_toma_dato : j \in {n \in 1..Len(filas) : filas[n].fecha_toma_dato # None}}

\* SELECT MAX(fecha_toma_dato): NULL for a table without timestamps
MaxFecha(filas) ==
    IF Fechas(filas) = {} THEN None
    ELSE CHOOSE f \in Fechas(filas) : \A g \in Fechas(filas) : MayorOIgual(f, g)

\* obtener_ultima_fecha(conn, tabla) without an exception
obtener_ultima_fecha(t) == MaxFecha(tabla[t])

PcUltima(t) == IF t = "caudales" THEN "ultima_caudales" ELSE "ultima_nivel"

TrasUltima(t) == IF t = "caudales" THEN "ultima_nivel" ELSE "ftp"

\* baselines of the current run as read so far
AnotarBase(t, valor) ==
    IF t = "caudales"
    THEN Append(lineaBase, [caudales |-> valor, nivel |-> None])
    ELSE [lineaBase EXCEPT ![corrida].nivel = valor]

\* what a call of obtener_ultima_fecha found stored and how it ended
AnotarLectura(t, falla) ==
    lecturas \cup {[corrida |-> corrida, tipo |-> t,
                    almacenada |-> obtener_ultima_fecha(t), falla |-> falla]}

ObtenerUltimaFecha(t) ==
    /\ pc = PcUltima(t)
    /\ ~abortada
    /\ ultima_fecha' = [ultima_fecha EXCEPT ![t] = obtener_ultima_fecha(t)]
    /\ lineaBase' = AnotarBase(t, obtener_ultima_fecha(t))
    /\ lecturas' = AnotarLectura(t, "ninguna")
    /\ pc' = TrasUltima(t)
    /\ SinFallo
    /\ UNCHANGED <<arbol, varsEsquema, corrida, tipo, conn, varsFtp, tabla, tx, abortada,
                   varsLote, varsRecorrido, varsRegistros>>

\* the query raises: the function returns None without a rollback, so a
\* statement the server refused leaves the connection's transaction aborted
ObtenerUltimaFechaFalla(t) ==
    /\ pc = PcUltima(t)
    /\ ~abortada
    /\ Inyectar("consulta")
    /\ abortada' \in BOOLEAN
    /\ ultima_fecha' = [ultima_fecha EXCEPT ![t] = None]
    /\ lineaBase' = AnotarBase(t, None)
    /\ lecturas' = AnotarLectura(t, "propia")
    /\ pc' = TrasUltima(t)
    /\ UNCHANGED <<arbol, varsEsquema, corrida, tipo, conn, varsFtp, tabla, tx, varsLote,
                   varsRecorrido, varsRegistros>>

\* the query is sent in an aborted transaction: the server refuses it
ObtenerUltimaFechaAbortada(t) ==
    /\ pc = PcUltima(t)
    /\ abortada
    /\ ultima_fecha' = [ultima_fecha EXCEPT ![t] = None]
    /\ lineaBase' = AnotarBase(t, None)
    /\ lecturas' = AnotarLectura(t, "arrastrada")
    /\ pc' = TrasUltima(t)
    /\ SinFallo
    /\ UNCHANGED <<arbol, varsEsquema, corrida, tipo, conn, varsFtp, tabla, tx, abortada,
                   varsLote, varsRecorrido, varsRegistros>>

(***************************************************************************)
(* main: FTP session and navigation to the dataset roots                   *)
(***************************************************************************)
\* ftp.connect and ftp.login succeed; the session starts at the server root
ConectarFTP ==
    /\ pc = "ftp"
    /\ cwd' = <<>>
    /\ pc' = "cenace"
    /\ SinFallo
    /\ UNCHANGED <<arbol, varsEsquema, corrida, tipo, conn, pila, profundidad, varsBd, varsLote,
                   varsRecorrido, varsRegistros, lineaBase, lecturas>>

\* ftp.connect or ftp.login raises: main's except clause
ConectarFTPFalla ==
    /\ pc = "ftp"
    /\ Inyectar("ftp")
    /\ pc' = "error_general"
    /\ UNCHANGED <<arbol, varsEsquema, corrida, tipo, conn, varsFtp, varsBd, varsLote,
                   varsRecorrido, varsRegistros, lineaBase, lecturas>>

\* ftp.cwd(nombre) can succeed
ExisteDir(ruta) == ruta \in DOMAIN FS.dirs

\* ftp.cwd('..')
Subir(ruta) == IF Len(ruta) = 0 THEN ruta ELSE SubSeq(ruta, 1, Len(ruta) - 1)

\* a navigation that fails: the directory is missing, or the server refuses
FallaNavegar(destino, clase) ==
    IF ExisteDir(destino) THEN Inyectar(clase) ELSE SinFallo

\* what main does after a dataset: the level dataset, then ftp.quit
TrasDataset ==
    IF tipo = "caudales"
    THEN tipo' = "nivel" /\ pc' = "dataset"
    ELSE tipo' = tipo /\ pc' = "quit"

NavegarCenace ==
    /\ pc = "cenace"
    /\ ExisteDir(cwd \o <<cenace>>)
    /\ cwd' = cwd \o <<cenace>>
    /\ tipo' = "caudales"
    /\ pc' = "dataset"
    /\ SinFallo
    /\ UNCHANGED <<arbol, varsEsquema, corrida, conn, pila, profundidad, varsBd, varsLote,
                   varsRecorrido, varsRegistros, lineaBase, lecturas>>

NavegarCenaceFalla ==
    /\ pc = "cenace"
    /\ FallaNavegar(cwd \o <<cenace>>, "cwd_main")
    /\ pc' = "quit"
    /\ UNCHANGED <<arbol, varsEsquema, corrida, tipo, conn, varsFtp, varsBd, varsLote,
                   varsRecorrido, varsRegistros, lineaBase, lecturas>>

\* navegar_ftp(ftp, 'caudales' | 'niveles') and listar_directorio_ftp
NavegarDataset ==
    /\ pc = "dataset"
    /\ ExisteDir(cwd \o <<DirDe(tipo)>>)
    /\ cwd' = cwd \o <<DirDe(tipo)>>
    /\ pc' = "anio"
    /\ SinFallo
    /\ UNCHANGED <<arbol, varsEsquema, corrida, tipo, conn, pila, profundidad, varsBd, varsLote,
                   varsRecorrido, varsRegistros, lineaBase, lecturas>>

NavegarDatasetFalla ==
    /\ pc = "dataset"
    /\ FallaNavegar(cwd \o <<DirDe(tipo)>>, "cwd_main")
    /\ TrasDataset
    /\ UNCHANGED <<arbol, varsEsquema, corrida, conn, varsFtp, varsBd, varsLote,
                   varsRecorrido, varsRegistros, lineaBase, lecturas>>

\* navegar_ftp(ftp, '2026'), listar_directorio_ftp, call of explorar_directorio
NavegarAnio ==
    /\ pc = "anio"
    /\ ExisteDir(cwd \o <<anio2026>>)
    /\ cwd' = cwd \o <<anio2026>>
    /\ profundidad' = 0
    /\ pc' = "llamada"
    /\ SinFallo
    /\ UNCHANGED <<arbol, varsEsquema, corrida, tipo, conn, pila, varsBd, varsLote,
                   varsRecorrido, varsRegistros, lineaBase, lecturas>>

\* the year directory cannot be entered: ftp.cwd('..') back to cenace
NavegarAnioFalla ==
    /\ pc = "anio"
    /\ FallaNavegar(cwd \o <<anio2026>>, "cwd_main")
    /\ cwd' = Subir(cwd)
    /\ TrasDataset
    /\ UNCHANGED <<arbol, varsEsquema, corrida, conn, pila, profundidad, varsBd, varsLote,
                   varsRecorrido, varsRegistros, lineaBase, lecturas>>

(***************************************************************************)
(* explorar_directorio                                                     *)
(***************************************************************************)
\* a guard that lets one more level through
ProfundidadExcedida_tardia(prof) == prof > max_profundidad + 1

\* the guard of the early return
ProfundidadExcedida(prof) == prof > max_profundidad

Tope == pila[Len(pila)]

\* the line the innermost loop is at
LineaActual == Tope.archivos[Tope.i]

\* nombre = ' '.join(partes[8:])
NombreDe(partes) == join(SubSeq(partes, 9, Len(partes)))

\* es_directorio = linea.startswith('d')
EsDirectorio(partes) == partes[1][1] = "d"

EnBucle == pc = "bucle" /\ Tope.i <= Len(Tope.archivos)

EnLinea == EnBucle /\ Len(LineaActual) >= 9

\* a loop that leaves out the line after the current one
Avanzar_salta ==
    /\ pila' = [pila EXCEPT ![Len(pila)].i = @ + 2]
    /\ manejadas' = manejadas \cup {<<corrida, Tope.ruta, Tope.i>>}

\* the loop moves to the next line
Avanzar ==
    /\ pila' = [pila EXCEPT ![Len(pila)].i = @ + 1]
    /\ manejadas' = manejadas \cup {<<corrida, Tope.ruta, Tope.i>>}

\* profundidad > max_profundidad: return without listing
ProfundidadMaxima ==
    /\ pc = "llamada"
    /\ ProfundidadExcedida(profundidad)
    /\ abandonados' = abandonados \cup {<<corrida, cwd>>}
    /\ pc' = "retorno"
    /\ SinFallo
    /\ UNCHANGED <<arbol, varsEsquema, corrida, tipo, conn, varsFtp, varsBd, varsLote,
                   visitados, listados, excluidos, omitidos, procesados, descargados,
                   manejadas, varsRegistros, lineaBase, lecturas>>

\* ftp.dir lists the working directory; the loop starts
IniciarExploracion ==
    /\ pc = "llamada"
    /\ ~ProfundidadExcedida(profundidad)
    /\ pila' = Append(pila, [archivos |-> FS.dirs[cwd], i |-> 1, dir_actual |-> None,
                             profundidad |-> profundidad, ruta |-> cwd])
    /\ listados' = listados \cup {<<corrida, cwd>>}
    /\ pc' = "bucle"
    /\ SinFallo
    /\ UNCHANGED <<arbol, varsEsquema, corrida, tipo, conn, cwd, profundidad, varsBd, varsLote,
                   visitados, excluidos, abandonados, omitidos, procesados, descargados,
                   manejadas, varsRegistros, lineaBase, lecturas>>

\* ftp.dir raises: no frame of explorar_directorio catches it, main does
ListadoFalla ==
    /\ pc = "llamada"
    /\ ~ProfundidadExcedida(profundidad)
    /\ Inyectar("listar")
    /\ pila' = <<>>
    /\ pc' = "error_general"
    /\ UNCHANGED <<arbol, varsEsquema, corrida, tipo, conn, cwd, profundidad, varsBd, varsLote,
                   varsRecorrido, varsRegistros, lineaBase, lecturas>>

\* len(partes) < 9
SaltarLinea ==
    /\ EnBucle
    /\ Len(LineaActual) < 9
    /\ Avanzar
    /\ SinFallo
    /\ UNCHANGED <<varsCtl, varsEsquema, cwd, profundidad, varsBd, varsLote, visitados, listados,
                   excluidos, abandonados, omitidos, procesados, descargados, varsRegistros,
                   lineaBase, lecturas>>

\* a file whose name does not end in '.json'
IgnorarEntrada ==
    /\ EnLinea
    /\ ~EsDirectorio(LineaActual)
    /\ ~endswith(NombreDe(LineaActual), punto_json)
    /\ Avanzar
    /\ SinFallo
    /\ UNCHANGED <<varsCtl, varsEsquema, cwd, profundidad, varsBd, varsLote, visitados, listados,
                   excluidos, abandonados, omitidos, procesados, descargados, varsRegistros,
                   lineaBase, lecturas>>

\* es_directorio_excluido(nombre)
ExcluirDirectorio ==
    /\ EnLinea
    /\ EsDirectorio(LineaActual)
    /\ es_directorio_excluido(NombreDe(LineaActual))
    /\ excluidos' = excluidos \cup {<<corrida, cwd \o <<NombreDe(LineaActual)>>>>}
    /\ Avanzar
    /\ SinFallo
    /\ UNCHANGED <<varsCtl, varsEsquema, cwd, profundidad, varsBd, varsLote, visitados, listados,
                   abandonados, omitidos, procesados, descargados, varsRegistros, lineaBase, lecturas>>

\* dir_actual = ftp.pwd(); navegar_ftp succeeds; recursive call
DescenderDirectorio ==
    /\ EnLinea
    /\ EsDirectorio(LineaActual)
    /\ ~es_directorio_excluido(NombreDe(LineaActual))
    /\ ExisteDir(cwd \o <<NombreDe(LineaActual)>>)
    /\ pila' = [pila EXCEPT ![Len(pila)].dir_actual = cwd]
    /\ cwd' = cwd \o <<NombreDe(LineaActual)>>
    /\ visitados' = visitados \cup {<<corrida, cwd \o <<NombreDe(LineaActual)>>>>}
    /\ profundidad' = Tope.profundidad + 1
    /\ pc' = "llamada"
    /\ SinFallo
    /\ UNCHANGED <<arbol, varsEsquema, corrida, tipo, conn, varsBd, varsLote, listados, excluidos,
                   abandonados, omitidos, procesados, descargados, manejadas, varsRegistros,
                   lineaBase, lecturas>>

\* dir_actual = ftp.pwd(); navegar_ftp returns False: next line
NavegarSubdirFalla ==
    /\ EnLinea
    /\ EsDirectorio(LineaActual)
    /\ ~es_directorio_excluido(NombreDe(LineaActual))
    /\ FallaNavegar(cwd \o <<NombreDe(LineaActual)>>, "cwd")
    /\ pila' = [pila EXCEPT ![Len(pila)].dir_actual = cwd, ![Len(pila)].i = @ + 1]
    /\ manejadas' = manejadas \cup {<<corrida, Tope.ruta, Tope.i>>}
    /\ UNCHANGED <<varsCtl, varsEsquema, cwd, profundidad, varsBd, varsLote, visitados, listados,
                   excluidos, abandonados, omitidos, procesados, descargados, varsRegistros,
                   lineaBase, lecturas>>

\* end of the for loop: the call returns
FinDirectorio ==
    /\ pc = "bucle"
    /\ Tope.i > Len(Tope.archivos)
    /\ pila' = SubSeq(pila, 1, Len(pila) - 1)
    /\ pc' = "retorno"
    /\ SinFallo
    /\ UNCHANGED <<arbol, varsEsquema, corrida, tipo, conn, cwd, profundidad, varsBd, varsLote,
                   varsRecorrido, varsRegistros, lineaBase, lecturas>>

\* a return to the loop that leaves the session in the subdirectory
VolverAlPadre_sin_cwd ==
    /\ pc = "retorno"
    /\ pila # <<>>
    /\ Avanzar
    /\ pc' = "bucle"
    /\ SinFallo
    /\ UNCHANGED <<arbol, varsEsquema, corrida, tipo, conn, cwd, profundidad, varsBd, varsLote,
                   visitados, listados, excluidos, abandonados, omitidos, procesados,
                   descargados, varsRegistros, lineaBase, lecturas>>

\* after the recursive call: ftp.cwd(dir_actual), next line
VolverAlPadre ==
    /\ pc = "retorno"
    /\ pila # <<>>
    /\ cwd' = Tope.dir_actual
    /\ Avanzar
    /\ pc' = "bucle"
    /\ SinFallo
    /\ UNCHANGED <<arbol, varsEsquema, corrida, tipo, conn, profundidad, varsBd, varsLote,
                   visitados, listados, excluidos, abandonados, omitidos, procesados,
                   descargados, varsRegistros, lineaBase, lecturas>>

\* after the outermost call: ftp.cwd('..') twice, back in cenace
VolverAMain ==
    /\ pc = "retorno"
    /\ pila = <<>>
    /\ cwd' = Subir(Subir(cwd))
    /\ TrasDataset
    /\ SinFallo
    /\ UNCHANGED <<arbol, varsEsquema, corrida, conn, pila, profundidad, varsBd, varsLote,
                   varsRecorrido, varsRegistros, lineaBase, lecturas>>

(***************************************************************************)
(* procesar_archivo_ftp                                                    *)
(***************************************************************************)
EnArchivo ==
    /\ EnLinea
    /\ ~EsDirectorio(LineaActual)
    /\ endswith(NombreDe(LineaActual), punto_json)

\* the path RETR resolves the name to
RutaArchivo == cwd \o <<NombreDe(LineaActual)>>

\* a comparison that also admits the baseline itself
EsPosterior_o_igual(dt, base) == MayorOIgual(dt, base)

\* the timestamp comparison of the record-level filter
EsPosterior(dt, base) == Mayor(dt, base)

\* 'Date' in dato and strptime(dato['Date'], ...) > ultima_fecha raises:
\* TypeError for an element that is not an object, ValueError for a date
\* that does not match the format
ElementoLanza(dato) ==
    IF ~dato.dict THEN TRUE
    ELSE IF "Date" \notin DOMAIN dato.v THEN FALSE
    ELSE ~strptime(dato.v.Date, FormatoRegistro).ok

\* the list comprehension raises at the first such element
FiltroLanza(datos, base) ==
    /\ base # None
    /\ \E j \in 1..Len(datos) : ElementoLanza(datos[j])

\* a condition that forgets the comparison with the baseline
Admitido_sin_comparar(dato, base) == "Date" \in DOMAIN dato.v

\* the condition of the list comprehension
Admitido(dato, base) ==
    /\ "Date" \in DOMAIN dato.v
    /\ EsPosterior(strptime(dato.v.Date, FormatoRegistro).dt, base)

\* the records handed to insertar_datos, each with its position in the file
RECURSIVE Filtrar(_, _, _)
Filtrar(datos, base, j) ==
    IF j > Len(datos) THEN <<>>
    ELSE (IF base = None \/ Admitido(datos[j], base)
          THEN <<[pos |-> j, dato |-> datos[j]]>> ELSE <<>>)
         \o Filtrar(datos, base, j + 1)

\* datos after the "Filtrar datos por fecha" block
datos_filtrados(datos, base) == Filtrar(datos, base, 1)

Contenido == FS.archivos[RutaArchivo]

EntregadosDe(ruta, filtrados) ==
    {[corrida |-> corrida, tipo |-> tipo, archivo |-> ruta, pos |-> filtrados[j].pos] :
        j \in 1..Len(filtrados)}

\* es_archivo_reciente is False: the file is skipped
OmitirArchivo ==
    /\ EnArchivo
    /\ ~es_archivo_reciente(NombreDe(LineaActual), ultima_fecha[tipo])
    /\ procesados' = procesados \cup {<<corrida, RutaArchivo>>}
    /\ omitidos' = omitidos \cup {<<corrida, RutaArchivo>>}
    /\ Avanzar
    /\ SinFallo
    /\ UNCHANGED <<varsCtl, varsEsquema, cwd, profundidad, varsBd, varsLote, visitados, listados,
                   excluidos, abandonados, descargados, varsRegistros, lineaBase, lecturas>>

\* a retrieval failure that nothing catches before main
DescargaFalla_sin_except ==
    /\ EnArchivo
    /\ es_archivo_reciente(NombreDe(LineaActual), ultima_fecha[tipo])
    /\ IF RutaArchivo \in DOMAIN FS.archivos THEN Inyectar("retr") ELSE SinFallo
    /\ procesados' = procesados \cup {<<corrida, RutaArchivo>>}
    /\ pila' = <<>>
    /\ pc' = "error_general"
    /\ UNCHANGED <<arbol, varsEsquema, corrida, tipo, conn, cwd, profundidad, varsBd, varsLote,
                   visitados, listados, excluidos, abandonados, omitidos, descargados,
                   manejadas, varsRegistros, lineaBase, lecturas>>

\* ftp.retrbinary raises: caught, the file is abandoned
DescargaFalla ==
    /\ EnArchivo
    /\ es_archivo_reciente(NombreDe(LineaActual), ultima_fecha[tipo])
    /\ IF RutaArchivo \in DOMAIN FS.archivos THEN Inyectar("retr") ELSE SinFallo
    /\ procesados' = procesados \cup {<<corrida, RutaArchivo>>}
    /\ Avanzar
    /\ UNCHANGED <<varsCtl, varsEsquema, cwd, profundidad, varsBd, varsLote, visitados, listados,
                   excluidos, abandonados, omitidos, descargados, varsRegistros, lineaBase, lecturas>>

Descargable ==
    /\ EnArchivo
    /\ es_archivo_reciente(NombreDe(LineaActual), ultima_fecha[tipo])
    /\ RutaArchivo \in DOMAIN FS.archivos

\* the payload is not JSON, not a list, or an empty list
ArchivoSinDatos ==
    /\ Descargable
    /\ procesar_archivo_json(Contenido) = <<>>
    /\ procesados' = procesados \cup {<<corrida, RutaArchivo>>}
    /\ descargados' = descargados \cup {<<corrida, RutaArchivo>>}
    /\ Avanzar
    /\ SinFallo
    /\ UNCHANGED <<varsCtl, varsEsquema, cwd, profundidad, varsBd, varsLote, visitados, listados,
                   excluidos, abandonados, omitidos, varsRegistros, lineaBase, lecturas>>

\* the record-level filter raises: caught, the file is abandoned
FiltroFalla ==
    /\ Descargable
    /\ procesar_archivo_json(Contenido) # <<>>
    /\ FiltroLanza(procesar_archivo_json(Contenido), ultima_fecha[tipo])
    /\ procesados' = procesados \cup {<<corrida, RutaArchivo>>}
    /\ descargados' = descargados \cup {<<corrida, RutaArchivo>>}
    /\ Avanzar
    /\ SinFallo
    /\ UNCHANGED <<varsCtl, varsEsquema, cwd, profundidad, varsBd, varsLote, visitados, listados,
                   excluidos, abandonados, omitidos, varsRegistros, lineaBase, lecturas>>

\* the filtered records are handed to insertar_datos
EntregarDatos ==
    /\ Descargable
    /\ procesar_archivo_json(Contenido) # <<>>
    /\ ~FiltroLanza(procesar_archivo_json(Contenido), ultima_fecha[tipo])
    /\ LET filtrados == datos_filtrados(procesar_archivo_json(Contenido),
                                        ultima_fecha[tipo])
       IN  /\ lote' = filtrados
           /\ entregados' = entregados \cup EntregadosDe(RutaArchivo, filtrados)
    /\ k' = 1
    /\ archivo' = RutaArchivo
    /\ registros_insertados' = 0
    /\ registros_fallidos' = 0
    /\ resultado' = <<>>
    /\ filas_previas' = Len(tabla[tipo])
    /\ procesados' = procesados \cup {<<corrida, RutaArchivo>>}
    /\ descargados' = descargados \cup {<<corrida, RutaArchivo>>}
    /\ pc' = "insertar"
    /\ SinFallo
    /\ UNCHANGED <<arbol, varsEsquema, corrida, tipo, conn, varsFtp, varsBd, visitados, listados,
                   excluidos, abandonados, omitidos, manejadas, persistidos, rechazados,
                   lineaBase, lecturas>>

(***************************************************************************)
(* insertar_datos                                                          *)
(***************************************************************************)
EnDato == pc = "insertar" /\ k <= Len(lote)

DatoActual == lote[k].dato

\* the record's identity in the histories
Registro == [corrida |-> corrida, tipo |-> tipo, archivo |-> archivo, pos |-> lote[k].pos]

\* the value is present and float() accepts it
ValorNumerico(dato) ==
    /\ get(dato, "Value") # None
    /\ float_round3(get(dato, "Value")).ok

\* PostgreSQL's conversion of the fecha parameter to a timestamp:
\* None is NULL, a text that is not a timestamp is refused
FechaBD(fecha) ==
    IF fecha = None THEN [ok |-> TRUE, dt |-> None]
    ELSE strptime(fecha, FormatoRegistro)

\* a lookup that ignores the registry
Coordenadas_sin_registro(nombre_estacion) == <<0, 0>>

\* coordinates of the station, (0.0, 0.0) when it is not in the registry
Coordenadas(nombre_estacion) ==
    IF nombre_estacion \in DOMAIN estaciones
    THEN estaciones[nombre_estacion]
    ELSE <<0, 0>>

\* the row of the INSERT statement
Fila(dato) ==
    [Latitud |-> Coordenadas(get(dato, "N_Common"))[1],
     Longitud |-> Coordenadas(get(dato, "N_Common"))[2],
     nombre_estacion |-> get(dato, "N_Common"),
     fecha_toma_dato |-> FechaBD(get(dato, "Date")).dt,
     valor_1h |-> float_round3(get(dato, "Value")).valor]

\* cursor.execute: the row is written in the open transaction
execute(transaccion, fila) == Append(transaccion, fila)

\* conn.commit(): the transaction's rows become rows of the table
commit(filas, transaccion) == filas \o transaccion

\* conn.rollback(): the transaction's rows are discarded
rollback(transaccion) == <<>>

\* an insert whose commit is missing: the row stays in the open transaction
TrasInsertar_sin_commit(filas, transaccion, fila) ==
    [tabla |-> filas, tx |-> execute(transaccion, fila)]

\* table and transaction after a successful execute and the commit
TrasInsertar(filas, transaccion, fila) ==
    [tabla |-> commit(filas, execute(transaccion, fila)), tx |-> <<>>]

Siguiente(r) ==
    /\ k' = k + 1
    /\ resultado' = Append(resultado, r)

\* dato.get raises AttributeError: the outer except counts a failure
DatoNoDict ==
    /\ EnDato
    /\ ~DatoActual.dict
    /\ registros_fallidos' = registros_fallidos + 1
    /\ Siguiente("fallido")
    /\ SinFallo
    /\ UNCHANGED <<varsCtl, varsEsquema, varsFtp, varsBd, lote, archivo, filas_previas, registros_insertados,
                   varsRecorrido, varsRegistros, lineaBase, lecturas>>

\* valor_texto is None: continue
DatoValorNulo ==
    /\ EnDato
    /\ DatoActual.dict
    /\ get(DatoActual, "Value") = None
    /\ Siguiente("descartado")
    /\ SinFallo
    /\ UNCHANGED <<varsCtl, varsEsquema, varsFtp, varsBd, lote, archivo, filas_previas, registros_insertados,
                   registros_fallidos, varsRecorrido, varsRegistros, lineaBase, lecturas>>

\* a conversion error that is also counted as a failure
DatoValorNoNumerico_contado ==
    /\ EnDato
    /\ DatoActual.dict
    /\ get(DatoActual, "Value") # None
    /\ ~float_round3(get(DatoActual, "Value")).ok
    /\ registros_fallidos' = registros_fallidos + 1
    /\ Siguiente("descartado")
    /\ SinFallo
    /\ UNCHANGED <<varsCtl, varsEsquema, varsFtp, varsBd, lote, archivo, filas_previas,
                   registros_insertados, varsRecorrido, varsRegistros, lineaBase, lecturas>>

\* float(valor_texto) raises ValueError: continue
DatoValorNoNumerico ==
    /\ EnDato
    /\ DatoActual.dict
    /\ get(DatoActual, "Value") # None
    /\ ~float_round3(get(DatoActual, "Value")).ok
    /\ Siguiente("descartado")
    /\ SinFallo
    /\ UNCHANGED <<varsCtl, varsEsquema, varsFtp, varsBd, lote, archivo, filas_previas, registros_insertados,
                   registros_fallidos, varsRecorrido, varsRegistros, lineaBase, lecturas>>

\* execute and commit succeed
InsertarOk ==
    /\ EnDato
    /\ DatoActual.dict
    /\ ValorNumerico(DatoActual)
    /\ FechaBD(get(DatoActual, "Date")).ok
    /\ ~abortada
    /\ LET tras == TrasInsertar(tabla[tipo], tx, Fila(DatoActual))
       IN  /\ tabla' = [tabla EXCEPT ![tipo] = tras.tabla]
           /\ tx' = tras.tx
    /\ registros_insertados' = registros_insertados + 1
    /\ persistidos' = persistidos \cup {[registro |-> Registro, fila |-> Fila(DatoActual)]}
    /\ Siguiente("insertado")
    /\ SinFallo
    /\ UNCHANGED <<varsCtl, varsEsquema, varsFtp, ultima_fecha, abortada, lote, archivo,
                   filas_previas, registros_fallidos,
                   varsRecorrido, entregados, rechazados, lineaBase, lecturas>>

\* the server refuses the INSERT whatever the environment does
InsertRechazado(dato) ==
    IF abortada THEN TRUE ELSE ~FechaBD(get(dato, "Date")).ok

\* execute or commit raises (a refused timestamp, an aborted transaction, a
\* constraint, a lost connection): rollback, one failure counted
InsertarFalla ==
    /\ EnDato
    /\ DatoActual.dict
    /\ ValorNumerico(DatoActual)
    /\ IF InsertRechazado(DatoActual) THEN SinFallo ELSE Inyectar("insert")
    /\ tx' = rollback(tx)
    /\ abortada' = FALSE
    /\ registros_fallidos' = registros_fallidos + 1
    /\ rechazados' = rechazados \cup {Registro}
    /\ Siguiente("fallido")
    /\ UNCHANGED <<varsCtl, varsEsquema, varsFtp, ultima_fecha, tabla, lote, archivo, filas_previas,
                   registros_insertados, varsRecorrido, entregados, persistidos,
                   lineaBase, lecturas>>

\* end of the for loop of insertar_datos; procesar_archivo_ftp returns
FinInsertar ==
    /\ pc = "insertar"
    /\ k > Len(lote)
    /\ Avanzar
    /\ pc' = "bucle"
    /\ SinFallo
    /\ UNCHANGED <<arbol, varsEsquema, corrida, tipo, conn, cwd, profundidad, varsBd, varsLote,
                   visitados, listados, excluidos, abandonados, omitidos, procesados,
                   descargados, varsRegistros, lineaBase, lecturas>>

(***************************************************************************)
(* main: end of a run                                                      *)
(***************************************************************************)
\* ftp.quit(), then the finally clause closes the connection
Terminar ==
    /\ pc = "quit"
    /\ conn' = "cerrada"
    /\ pc' = "fin"
    /\ SinFallo
    /\ UNCHANGED <<arbol, varsEsquema, corrida, tipo, varsFtp, varsBd, varsLote, varsRecorrido,
                   varsRegistros, lineaBase, lecturas>>

\* an except clause that is not followed by the close of the connection
ErrorGeneral_sin_cerrar ==
    /\ pc = "error_general"
    /\ pc' = "fin_error"
    /\ SinFallo
    /\ UNCHANGED <<arbol, varsEsquema, corrida, tipo, conn, varsFtp, varsBd, varsLote,
                   varsRecorrido, varsRegistros, lineaBase, lecturas>>

\* except Exception, then the finally clause closes the connection
ErrorGeneral ==
    /\ pc = "error_general"
    /\ conn' = "cerrada"
    /\ pc' = "fin_error"
    /\ SinFallo
    /\ UNCHANGED <<arbol, varsEsquema, corrida, tipo, varsFtp, varsBd, varsLote, varsRecorrido,
                   varsRegistros, lineaBase, lecturas>>

Terminada == pc \in {"fin", "fin_error"}

\* the script is started again against the same remote tree
NuevaCorrida ==
    /\ Terminada
    /\ corrida < MaxCorridas
    /\ corrida' = corrida + 1
    /\ pc' = "inicio"
    /\ tipo' = "caudales"
    /\ conn' = "ninguna"
    /\ cwd' = <<>>
    /\ pila' = <<>>
    /\ profundidad' = 0
    /\ ultima_fecha' = [t \in Tipos |-> None]
    /\ lote' = <<>>
    /\ k' = 1
    /\ archivo' = <<>>
    /\ registros_insertados' = 0
    /\ registros_fallidos' = 0
    /\ resultado' = <<>>
    /\ filas_previas' = 0
    /\ lineaBase' = IF Len(lineaBase) < corrida
                    THEN Append(lineaBase, [caudales |-> None, nivel |-> None])
                    ELSE lineaBase
    /\ abortada' = FALSE
    /\ SinFallo
    /\ UNCHANGED <<arbol, varsEsquema, lecturas, tabla, tx, varsRecorrido, varsRegistros>>

Next ==
    \/ ConectarBD
    \/ ConectarBDFalla
    \/ ModificarTablasAlter
    \/ ModificarTablasSinCambio
    \/ ModificarTablasFalla
    \/ \E t \in Tipos : ObtenerUltimaFecha(t)
    \/ \E t \in Tipos : ObtenerUltimaFechaFalla(t)
    \/ \E t \in Tipos : ObtenerUltimaFechaAbortada(t)
    \/ ConectarFTP
    \/ ConectarFTPFalla
    \/ NavegarCenace
    \/ NavegarCenaceFalla
    \/ NavegarDataset
    \/ NavegarDatasetFalla
    \/ NavegarAnio
    \/ NavegarAnioFalla
    \/ ProfundidadMaxima
    \/ IniciarExploracion
    \/ ListadoFalla
    \/ SaltarLinea
    \/ IgnorarEntrada
    \/ ExcluirDirectorio
    \/ DescenderDirectorio
    \/ NavegarSubdirFalla
    \/ FinDirectorio
    \/ VolverAlPadre
    \/ VolverAMain
    \/ OmitirArchivo
    \/ DescargaFalla
    \/ ArchivoSinDatos
    \/ FiltroFalla
    \/ EntregarDatos
    \/ DatoNoDict
    \/ DatoValorNulo
    \/ DatoValorNoNumerico
    \/ InsertarOk
    \/ InsertarFalla
    \/ FinInsertar
    \/ Terminar
    \/ ErrorGeneral
    \/ NuevaCorrida

Spec == Init /\ [][Next]_vars

\* the same program started from any combination of column types
SpecEsquema == InitEsquema /\ [][Next]_vars

(***************************************************************************)
(* Vocabulary of the properties                                            *)
(***************************************************************************)
\* number of path components of a walk's root
LargoRaiz == Len(RaizCaudales)

\* the path has a component named 'historica', in any case, below the root
BajoHistorica(ruta) ==
    \E n \in (LargoRaiz + 1)..Len(ruta) : lower(ruta[n]) = historica

\* directory that holds a file
DirectorioDe(ruta_archivo) == SubSeq(ruta_archivo, 1, Len(ruta_archivo) - 1)

\* depth of a directory below the walk's root, the root being at depth 0
ProfundidadDe(ruta) == Len(ruta) - LargoRaiz

\* dataset a path belongs to
TipoDe(ruta) == IF ruta[2] = caudales THEN "caudales" ELSE "nivel"

EnRecorrido == pc \in {"llamada", "bucle", "retorno", "insertar"}

\* every line of every directory listed in the current run has been handled
TodoManejado ==
    \A l \in listados :
        l[1] = corrida =>
            \A n \in 1..Len(FS.dirs[l[2]]) : <<corrida, l[2], n>> \in manejadas

\* no failure that main treats as fatal for the walk was injected in this run
SinFalloFatal ==
    {<<corrida, "bd">>, <<corrida, "ftp">>, <<corrida, "listar">>} \cap inyectados = {}

(***************************************************************************)
(* C1  Exclusion invariant: the session never changes into, and never      *)
(* lists, a directory named 'historica' (in any case) at any depth below   *)
(* the walk's root, and no file beneath such a directory is passed to      *)
(* procesar_archivo_ftp.                                                   *)
(***************************************************************************)
ExclusionInvariant ==
    /\ \A v \in visitados : ~BajoHistorica(v[2])
    /\ \A l \in listados : ~BajoHistorica(l[2])
    /\ \A f \in procesados : ~BajoHistorica(DirectorioDe(f[2]))
    /\ \A e \in entregados : ~BajoHistorica(DirectorioDe(e.archivo))
    /\ EnRecorrido => ~BajoHistorica(cwd)

\* a run that met 'HISTORICA' at the root and 'historica' one level down has
\* finished its walks and persisted rows
ExclusionWitness ==
    /\ pc = "fin"
    /\ <<corrida, RaizCaudales \o <<HISTORICA>>>> \in excluidos
    /\ <<corrida, RaizCaudales \o <<enero, historica>>>> \in excluidos
    /\ \E e \in persistidos : e.registro.corrida = corrida

(***************************************************************************)
(* C2  Depth bound: a directory deeper than max_profundidad is never       *)
(* listed and no file in it is retrieved, handed on or persisted;          *)
(* leaving that branch does not stop the entries of its ancestors.         *)
(***************************************************************************)
DepthBound ==
    /\ \A l \in listados : ProfundidadDe(l[2]) <= max_profundidad
    /\ \A f \in procesados : ProfundidadDe(DirectorioDe(f[2])) <= max_profundidad
    /\ \A f \in descargados : ProfundidadDe(DirectorioDe(f[2])) <= max_profundidad
    /\ \A e \in entregados : ProfundidadDe(DirectorioDe(e.archivo)) <= max_profundidad
    /\ \A e \in persistidos :
          ProfundidadDe(DirectorioDe(e.registro.archivo)) <= max_profundidad
    /\ \A a \in abandonados :
          /\ ProfundidadDe(a[2]) > max_profundidad
          /\ (a[1] = corrida /\ Terminada /\ SinFalloFatal) => (pc = "fin" /\ TodoManejado)

\* the branch below depth 5 was abandoned, its fresh file was not retrieved,
\* and the file listed after the chain in the root was persisted
DepthWitness ==
    /\ pc = "fin"
    /\ <<corrida, RaizCaudales \o <<a_, b_, c_, d_, e_, f_>>>> \in abandonados
    /\ RaizCaudales \o <<a_, b_, c_, d_, e_, f_, datos_json>> \in DOMAIN FS.archivos
    /\ \E e \in persistidos :
          /\ e.registro.corrida = corrida
          /\ e.registro.archivo = RaizCaudales \o <<datos_json>>
    /\ \E e \in persistidos :
          /\ e.registro.corrida = corrida
          /\ e.registro.archivo = RaizCaudales \o <<a_, b_, c_, d_, e_, datos_json>>

(***************************************************************************)
(* C3  Fault isolation: in a batch of insertar_datos, a record whose       *)
(* insert fails leaves no row and is counted once as failed; the rows of   *)
(* the records inserted before it stay committed (nothing is left in the   *)
(* transaction for the rollback to undo) and the loop goes on to the end   *)
(* of the batch.                                                           *)
(***************************************************************************)
Cuenta(r) == Cardinality({n \in 1..Len(resultado) : resultado[n] = r})

\* positions of the batch whose insert succeeded so far
Insertadas == {n \in 1..Len(resultado) : resultado[n] = "insertado"}

FaultIsolation ==
    /\ tx = <<>>
    /\ pc = "insertar" =>
          /\ Len(resultado) = k - 1
          /\ registros_fallidos = Cuenta("fallido")
          /\ registros_insertados = Cuenta("insertado")
          /\ Len(tabla[tipo]) = filas_previas + Cuenta("insertado")
          /\ \A n \in Insertadas :
                \E m \in (filas_previas + 1)..Len(tabla[tipo]) :
                    /\ tabla[tipo][m] = Fila(lote[n].dato)
                    /\ m - filas_previas = Cardinality({j \in Insertadas : j <= n})
    /\ pc # "insertar" => Len(resultado) = Len(lote)

\* a batch in which a record failed between two records that were committed
FaultIsolationWitness ==
    /\ pc = "insertar"
    /\ \E n \in 2..(Len(resultado) - 1) :
          /\ resultado[n] = "fallido"
          /\ resultado[n - 1] = "insertado"
          /\ resultado[n + 1] = "insertado"
          /\ [corrida |-> corrida, tipo |-> tipo, archivo |-> archivo,
              pos |-> lote[n].pos] \in rechazados

(***************************************************************************)
(* C4  Strict freshness: with a baseline B read before the walk and not    *)
(* changed during it, every row persisted in that walk is strictly later   *)
(* than B, and every record of a filtered file that is later than B (one   *)
(* second later included) is handed to insertar_datos.                     *)
(***************************************************************************)
BaseDe(c, t) == lineaBase[c][t]

\* the timestamp a record of the tree carries, None when it has none
FechaDelRegistro(ruta, pos) ==
    LET dato == FS.archivos[ruta].datos[pos]
        leida == strptime(dato.v.Date, FormatoRegistro)
    IN  IF ~dato.dict THEN None
        ELSE IF "Date" \notin DOMAIN dato.v THEN None
        ELSE IF ~leida.ok THEN None
        ELSE leida.dt

\* an element the record-level filter can evaluate: an object whose date,
\* when it has one, has the format of the remote tree
Evaluable(dato) ==
    IF ~dato.dict THEN FALSE
    ELSE IF "Date" \notin DOMAIN dato.v THEN TRUE
    ELSE strptime(dato.v.Date, FormatoRegistro).ok

\* retrieved files of a run whose payload is a list of evaluable elements
Filtrados ==
    {f \in descargados :
        /\ FS.archivos[f[2]].json
        /\ FS.archivos[f[2]].es_lista
        /\ \A n \in 1..Len(FS.archivos[f[2]].datos) :
              Evaluable(FS.archivos[f[2]].datos[n])}

StrictFreshness ==
    /\ EnRecorrido => ultima_fecha = lineaBase[corrida]
    /\ \A e \in persistidos :
          BaseDe(e.registro.corrida, e.registro.tipo) # None =>
              /\ e.fila.fecha_toma_dato # None
              /\ Menor(BaseDe(e.registro.corrida, e.registro.tipo), e.fila.fecha_toma_dato)
    /\ \A f \in Filtrados :
          BaseDe(f[1], TipoDe(f[2])) # None =>
              \A n \in 1..Len(FS.archivos[f[2]].datos) :
                  LET fecha == FechaDelRegistro(f[2], n)
                      e == [corrida |-> f[1], tipo |-> TipoDe(f[2]),
                            archivo |-> f[2], pos |-> n]
                  IN  e \in entregados <=>
                          (fecha # None /\ Menor(BaseDe(f[1], TipoDe(f[2])), fecha))

\* with the baseline 2026-01-01 12:00:00 the record of 12:00:01 is a row and
\* the record of 12:00:00 of the same file is not
StrictFreshnessWitness ==
    \E e \in persistidos :
        /\ BaseDe(e.registro.corrida, e.registro.tipo) = <<2026, 1, 1, 12, 0, 0>>
        /\ e.fila.fecha_toma_dato = <<2026, 1, 1, 12, 0, 1>>
        /\ FechaDelRegistro(e.registro.archivo, 1) = <<2026, 1, 1, 12, 0, 0>>
        /\ ~\E o \in persistidos :
              /\ o.registro.archivo = e.registro.archivo
              /\ o.registro.pos = 1

(***************************************************************************)
(* Vocabulary of the properties about two consecutive runs                 *)
(***************************************************************************)
\* records committed by run c for dataset t
Comprometidos(c, t) ==
    {e.registro : e \in {p \in persistidos : p.registro.corrida = c /\ p.registro.tipo = t}}

\* timestamps of the rows committed by run c for dataset t
FechasComprometidas(c, t) ==
    {e.fila.fecha_toma_dato :
        e \in {p \in persistidos : /\ p.registro.corrida = c
                                   /\ p.registro.tipo = t
                                   /\ p.fila.fecha_toma_dato # None}}

\* the maximum timestamp committed by run c for dataset t, None without one
MaxComprometida(c, t) ==
    IF FechasComprometidas(c, t) = {} THEN None
    ELSE CHOOSE f \in FechasComprometidas(c, t) :
             \A g \in FechasComprometidas(c, t) : ~Menor(f, g)

\* run c + 1 has read, for dataset t, the maximum committed by run c
SegundaTrasPrimera(c, t) ==
    /\ c + 1 <= corrida
    /\ c + 1 <= Len(lineaBase)
    /\ MaxComprometida(c, t) # None
    /\ BaseDe(c + 1, t) = MaxComprometida(c, t)

EnOtraCorrida(e, c) == [e EXCEPT !.corrida = c]

SinFallosEn(c) == ~\E y \in inyectados : y[1] = c

\* a record with a timestamp of the remote format and a numeric value
Valido(ruta, pos) ==
    /\ FechaDelRegistro(ruta, pos) # None
    /\ ValorNumerico(FS.archivos[ruta].datos[pos])

\* the record was new for run c: later than the baseline that run read
NuevoPara(c, ruta, pos) ==
    \/ BaseDe(c, TipoDe(ruta)) = None
    \/ Menor(BaseDe(c, TipoDe(ruta)), FechaDelRegistro(ruta, pos))

EsLista(ruta) ==
    /\ ruta \in DOMAIN FS.archivos
    /\ FS.archivos[ruta].json
    /\ FS.archivos[ruta].es_lista

SafeResumption ==
    \A c \in 1..(corrida - 1) :
        ( /\ c + 1 = corrida
          /\ pc = "fin"
          /\ SinFallosEn(c + 1)
          /\ {<<c, "bd">>, <<c, "consulta">>} \cap inyectados = {} )
        =>
        /\ \A f \in {x \in procesados : x[1] = c + 1 /\ EsLista(x[2])} :
              \A n \in 1..Len(FS.archivos[f[2]].datos) :
                  LET e == [corrida |-> c, tipo |-> TipoDe(f[2]),
                            archivo |-> f[2], pos |-> n]
                  IN  ( /\ Comprometidos(c, TipoDe(f[2])) # {}
                        /\ Valido(f[2], n)
                        /\ NuevoPara(c, f[2], n)
                        /\ e \notin Comprometidos(c, TipoDe(f[2])) )
                      => EnOtraCorrida(e, c + 1) \in Comprometidos(c + 1, TipoDe(f[2]))
        /\ \A t \in Tipos : \A e \in Comprometidos(c + 1, t) :
              EnOtraCorrida(e, c) \notin Comprometidos(c, t)

(***************************************************************************)
(* C7  Restore on failure: every step that takes control out of a          *)
(* recursive call of explorar_directorio, by a return or by an exception,  *)
(* leaves the session in the directory the calling frame saved, and the    *)
(* calling frame goes on with its next line.                               *)
(***************************************************************************)
SaleDeLlamada ==
    /\ pila # <<>>
    /\ pc \in {"llamada", "retorno"}
    /\ pc' \notin {"llamada", "retorno"}
    /\ Len(pila') <= Len(pila)

RestoreOnFailure ==
    [][SaleDeLlamada => (cwd' = Tope.dir_actual /\ pc' = "bucle")]_vars

(***************************************************************************)
(* C8  Branch- and file-level failures never halt the run: without a       *)
(* failure of the connection, the login or a listing, a run ends through   *)
(* ftp.quit with every line of every listed directory handled (each        *)
(* '.json' file passed on, each directory entered unless it is excluded    *)
(* or refuses the cwd) and with both dataset roots listed.                 *)
(***************************************************************************)
LineasDe(ruta) == FS.dirs[ruta]

NonFatalFailures ==
    (Terminada /\ SinFalloFatal) =>
        /\ pc = "fin"
        /\ TodoManejado
        /\ \A l \in {x \in listados : x[1] = corrida} :
              \A n \in 1..Len(LineasDe(l[2])) :
                  LET linea == LineasDe(l[2])[n]
                      destino == l[2] \o <<NombreDe(linea)>>
                  IN  IF Len(linea) < 9 THEN TRUE
                      ELSE IF EsDirectorio(linea)
                      THEN ( /\ lower(NombreDe(linea)) # historica
                             /\ ExisteDir(destino)
                             /\ <<corrida, "cwd">> \notin inyectados )
                           => <<corrida, destino>> \in visitados
                      ELSE endswith(NombreDe(linea), punto_json)
                           => <<corrida, destino>> \in procesados
        /\ \A t \in Tipos :
              (ExisteDir(RaizDe(t)) /\ <<corrida, "cwd_main">> \notin inyectados)
              => <<corrida, RaizDe(t)>> \in listados

\* a run in which a retrieval failed and another file was undecodable has
\* ended through ftp.quit with rows from a file listed after both
NonFatalWitness ==
    /\ pc = "fin"
    /\ <<corrida, "retr">> \in inyectados
    /\ <<corrida, RaizCaudales \o <<inv_json>>>> \in descargados
    /\ <<corrida, RaizCaudales \o <<obj_json>>>> \in procesados
    /\ <<corrida, RaizCaudales \o <<obj_json>>>> \notin descargados
    /\ \E e \in persistidos :
          /\ e.registro.corrida = corrida
          /\ e.registro.archivo = RaizCaudales \o <<m2_json>>

(***************************************************************************)
(* C9  Record-level isolation: once a retrieved file whose payload is a    *)
(* list has been processed, each of its records that is well-formed and    *)
(* fresh, and whose INSERT the database did not refuse, is persisted,      *)
(* whatever the other elements of the list are.                            *)
(***************************************************************************)
EnProceso(f) == pc = "insertar" /\ corrida = f[1] /\ archivo = f[2]

RecordIsolation ==
    \A f \in {x \in descargados : EsLista(x[2])} :
        ~EnProceso(f) =>
            \A n \in 1..Len(FS.archivos[f[2]].datos) :
                LET e == [corrida |-> f[1], tipo |-> TipoDe(f[2]),
                          archivo |-> f[2], pos |-> n]
                IN  ( /\ Valido(f[2], n)
                      /\ NuevoPara(f[1], f[2], n)
                      /\ e \notin rechazados )
                    => e \in Comprometidos(f[1], TipoDe(f[2]))

(***************************************************************************)
(* C10  File-level freshness: with a baseline B, a file is admitted when   *)
(* its name has no underscore-delimited segment starting with '202', and   *)
(* otherwise exactly when the date that segment encodes is not before      *)
(* B's date; without a baseline every file is admitted.                    *)
(***************************************************************************)
NombreDeArchivo(ruta) == ruta[Len(ruta)]

\* the date written in the first eight characters of a segment
FechaCodificada(segmento) ==
    IF Len(segmento) < 8 THEN NoCoincide
    ELSE strptime(SubSeq(segmento, 1, 8), FormatoArchivo)

\* what the claim expects of es_archivo_reciente
AdmisionEsperada(nombre, base) ==
    IF base = None THEN TRUE
    ELSE IF ~Contiene(nombre, "_") THEN TRUE
    ELSE LET partes == split(nombre, "_")
             con202 == {n \in 1..Len(partes) : startswith(partes[n], Prefijo202)}
         IN  IF con202 = {} THEN TRUE
             ELSE LET p == CHOOSE n \in con202 : \A o \in con202 : n <= o
                  IN  IF ~FechaCodificada(partes[p]).ok THEN TRUE
                      ELSE ~Menor(FechaCodificada(partes[p]).dt, date(base))

FileLevelFreshness ==
    \A f \in procesados :
        (f \notin omitidos) <=>
            AdmisionEsperada(NombreDeArchivo(f[2]), BaseDe(f[1], TipoDe(f[2])))

(***************************************************************************)
(* C11  SchemaGuard: whatever the column types of the two tables were,     *)
(* after modificar_tablas returns True all four columns are double         *)
(* precision; when all four already were, no ALTER is issued and nothing   *)
(* changes; when it fails the column types are as before, it returns       *)
(* False and main goes on to read the baselines.                           *)
(***************************************************************************)
TodasDobles(esq) ==
    \A t \in Tipos : esq[t].latitud = double_precision /\ esq[t].longitud = double_precision

\* the calls of modificar_tablas made so far
Llamadas == {guardia[n] : n \in 1..Len(guardia)}

SchemaGuard ==
    /\ \A g \in Llamadas :
          /\ g.retorno => TodasDobles(g.despues)
          /\ TodasDobles(g.antes) => (g.alters = 0 /\ g.despues = g.antes)
          /\ ~g.retorno => g.despues = g.antes
          /\ g.corrida = corrida =>
                (pc = "ultima_caudales" \/ Len(lineaBase) = corrida)
    /\ pc \notin {"inicio", "modificar"} /\ conn # "ninguna" =>
          \E g \in Llamadas : g.corrida = corrida /\ g.despues = esquema

(***************************************************************************)
(* C12  Cursor Reader: a read of the baseline that does not fail returns   *)
(* the maximum stored timestamp, None for an empty table; a failed read    *)
(* returns None, after which no file of that dataset is rejected by its    *)
(* name and every element of a retrieved list is handed to                 *)
(* insertar_datos; and the failure of the read of one dataset leaves the   *)
(* read of the other dataset returning what is stored.                     *)
(***************************************************************************)
\* files of run c and dataset t in a set of <<run, file>> pairs
ArchivosDe(conjunto, c, t) == {f \in conjunto : f[1] = c /\ TipoDe(f[2]) = t}

\* every element of the retrieved list was handed to insertar_datos
TodoEntregado(f) ==
    \A n \in 1..Len(FS.archivos[f[2]].datos) :
        [corrida |-> f[1], tipo |-> TipoDe(f[2]), archivo |-> f[2], pos |-> n]
            \in entregados

CursorReader ==
    \A l \in lecturas :
        /\ l.falla = "ninguna" => BaseDe(l.corrida, l.tipo) = l.almacenada
        /\ l.falla # "ninguna" =>
              /\ BaseDe(l.corrida, l.tipo) = None
              /\ ArchivosDe(procesados, l.corrida, l.tipo) \cap omitidos = {}
              /\ \A f \in ArchivosDe(descargados, l.corrida, l.tipo) :
                    EsLista(f[2]) => TodoEntregado(f)
        /\ \A o \in lecturas :
              ( /\ o.corrida = l.corrida
                /\ o.tipo # l.tipo
                /\ l.falla = "propia"
                /\ o.falla # "propia" )
              => BaseDe(o.corrida, o.tipo) = o.almacenada

(***************************************************************************)
(* C13  Enrichment: every persisted row carries the registry coordinates   *)
(* of its station, or (0.0, 0.0) for a station the registry does not       *)
(* know; a record with a numeric value and a timestamp the database        *)
(* accepts is persisted whatever its station is, unless the database       *)
(* fails; and without a baseline the file caudales_20240115.json with one  *)
(* record of 'Agoyan' and value '12.500' gives exactly one row with value  *)
(* 12.5 and coordinates (-1.3977, -78.3829).                               *)
(***************************************************************************)
\* the element of the remote tree a record was read from
DatoDe(e) == FS.archivos[e.archivo].datos[e.pos]

\* no statement of run c was made to fail
SinFallosBD(c) == {<<c, "insert">>, <<c, "consulta">>, <<c, "alter">>} \cap inyectados = {}

\* rows committed by run c for dataset t
FilasDe(c, t) ==
    {p \in persistidos : p.registro.corrida = c /\ p.registro.tipo = t}

Enrichment ==
    /\ \A p \in persistidos :
          LET nombre == get(DatoDe(p.registro), "N_Common")
          IN  /\ p.fila.nombre_estacion = nombre
              /\ <<p.fila.Latitud, p.fila.Longitud>> =
                    (IF nombre \in DOMAIN coordenadas_estaciones
                     THEN coordenadas_estaciones[nombre]
                     ELSE <<0, 0>>)
    /\ \A e \in entregados :
          ( /\ ~EnProceso(<<e.corrida, e.archivo>>)
            /\ DatoDe(e).dict
            /\ ValorNumerico(DatoDe(e))
            /\ FechaBD(get(DatoDe(e), "Date")).ok
            /\ SinFallosBD(e.corrida) )
          => ((\E p \in persistidos : p.registro = e) /\ e \notin rechazados)
    /\ ( /\ arbol = 4
         /\ corrida = 1
         /\ pc = "fin"
         /\ SinFallosEn(1)
         /\ BaseDe(1, "caudales") = None )
       => \E p \in FilasDe(1, "caudales") :
             /\ FilasDe(1, "caudales") = {p}
             /\ p.fila = [Latitud |-> -13977000, Longitud |-> -783829000,
                          nombre_estacion |-> "Agoyan",
                          fecha_toma_dato |-> <<2024, 1, 15, 0, 0, 0>>,
                          valor_1h |-> 12500]

\* the run over the two one-record files has ended: the row of 'Agoyan'
\* has the registry coordinates and the row of the unknown station (0, 0)
EnrichmentWitness ==
    /\ arbol = 4
    /\ corrida = 1
    /\ pc = "fin"
    /\ SinFallosEn(1)
    /\ BaseDe(1, "caudales") = None
    /\ \E p \in FilasDe(1, "caudales") :
          /\ p.fila.nombre_estacion = "Agoyan"
          /\ p.fila.valor_1h = 12500
          /\ <<p.fila.Latitud, p.fila.Longitud>> = <<-13977000, -783829000>>
    /\ \E p \in FilasDe(1, "nivel") :
          /\ p.fila.nombre_estacion \notin DOMAIN coordenadas_estaciones
          /\ <<p.fila.Latitud, p.fila.Longitud>> = <<0, 0>>

(***************************************************************************)
(* C14  Traversal order: the lines of a listing are handled in listing     *)
(* order, one at a time; a subdirectory and everything below it is         *)
(* completely handled before the next line of its parent; the walk of      *)
(* caudales is complete before the walk of nivel starts; and only the      *)
(* file of the current line of the innermost directory has a batch or a    *)
(* transaction in progress.                                                *)
(***************************************************************************)
\* every line of the listed directory has been handled
Drenado(c, ruta) ==
    \A n \in 1..Len(FS.dirs[ruta]) : <<c, ruta, n>> \in manejadas

\* directories whose loop is running
EnPila == {pila[n].ruta : n \in 1..Len(pila)}

\* everything a walk of run c touched in dataset t
TocadosDe(c, t) ==
    {x \in listados \cup procesados \cup visitados : x[1] = c /\ TipoDe(x[2]) = t}

TraversalOrder ==
    /\ \A h \in manejadas :
          \A j \in 1..(h[3] - 1) : <<h[1], h[2], j>> \in manejadas
    /\ \A n \in 1..Len(pila) :
          \A j \in 1..Len(pila[n].archivos) :
              (<<corrida, pila[n].ruta, j>> \in manejadas) <=> (j < pila[n].i)
    /\ \A n \in 1..(Len(pila) - 1) :
          /\ pila[n].i <= Len(pila[n].archivos)
          /\ pila[n + 1].ruta =
                pila[n].ruta \o <<NombreDe(pila[n].archivos[pila[n].i])>>
    /\ pc \notin {"error_general", "fin_error"} =>
          \A l \in listados :
              l[1] = corrida => (l[2] \in EnPila \/ Drenado(corrida, l[2]))
    /\ pc = "insertar" =>
          /\ pila # <<>>
          /\ Tope.i <= Len(Tope.archivos)
          /\ cwd = Tope.ruta
          /\ archivo = Tope.ruta \o <<NombreDe(LineaActual)>>
    /\ pc # "insertar" => k > Len(lote)
    /\ tx = <<>>
    /\ TocadosDe(corrida, "nivel") # {} =>
          /\ tipo = "nivel"
          /\ \A l \in listados :
                (l[1] = corrida /\ TipoDe(l[2]) = "caudales") => Drenado(corrida, l[2])

\* a record of the level dataset is being inserted after the flow dataset,
\* with a nested directory, was walked to the end
TraversalWitness ==
    /\ pc = "insertar"
    /\ tipo = "nivel"
    /\ k <= Len(lote)
    /\ \E l \in listados :
          /\ l[1] = corrida
          /\ TipoDe(l[2]) = "caudales"
          /\ Len(l[2]) > LargoRaiz
          /\ Len(FS.dirs[l[2]]) > 0
          /\ Drenado(corrida, l[2])
    /\ \E e \in persistidos :
          e.registro.corrida = corrida /\ e.registro.tipo = "caudales"

(***************************************************************************)
(* C15  Working-directory frame: a call of explorar_directorio that        *)
(* returns, from the end of its loop or from the depth guard, leaves the   *)
(* session in the directory it was called in; while a loop is at a line    *)
(* the session is in the directory that was listed, so every file passed   *)
(* on or retrieved is named by the listing of the directory it is          *)
(* retrieved from.                                                         *)
(***************************************************************************)
\* the listing of the directory of the file names the file
Nombrado(c, ruta_archivo) ==
    /\ <<c, DirectorioDe(ruta_archivo)>> \in listados
    /\ \E n \in 1..Len(FS.dirs[DirectorioDe(ruta_archivo)]) :
          LET linea == FS.dirs[DirectorioDe(ruta_archivo)][n]
          IN  /\ Len(linea) >= 9
              /\ NombreDe(linea) = NombreDeArchivo(ruta_archivo)

\* the session is where the innermost running call was started
EnSuDirectorio ==
    /\ pc \in {"bucle", "insertar"} => cwd = Tope.ruta
    /\ \A f \in procesados \cup descargados : Nombrado(f[1], f[2])

\* a step in which a call of explorar_directorio returns
Retorna == pc \in {"bucle", "llamada"} /\ pc' = "retorno"

\* the directory the returning call was started in
DirectorioDeLlamada == IF pc = "bucle" THEN Tope.ruta ELSE cwd

WorkingDirectoryFrame ==
    /\ []EnSuDirectorio
    /\ [][Retorna => (cwd = DirectorioDeLlamada /\ cwd' = DirectorioDeLlamada)]_vars

\* back in the root of the walk after the chain of subdirectories returned
\* through the depth guard, with the file listed after the chain retrieved
FrameWitness ==
    /\ pc = "bucle"
    /\ Len(pila) = 1
    /\ cwd = RaizCaudales
    /\ <<corrida, RaizCaudales \o <<a_, b_, c_, d_, e_, f_>>>> \in abandonados
    /\ <<corrida, RaizCaudales \o <<datos_json>>>> \in descargados
    /\ \E e \in persistidos :
          /\ e.registro.corrida = corrida
          /\ e.registro.archivo = RaizCaudales \o <<datos_json>>

(***************************************************************************)
(* C16  Record accounting: in a call of insertar_datos every record        *)
(* handled so far has exactly one outcome, inserted, failed or dropped;    *)
(* a record is dropped exactly when its value is null or not numeric;      *)
(* registros_insertados and registros_fallidos count the first two         *)
(* outcomes, the three add up to the records handled, which at the end     *)
(* of the call is the length of the batch, and registros_insertados is     *)
(* the number of rows the call committed.                                  *)
(***************************************************************************)
Resultados == {"insertado", "fallido", "descartado"}

\* rows of the current batch's file committed in this run
FilasDelLote ==
    {p \in persistidos : p.registro.corrida = corrida /\ p.registro.archivo = archivo}

RecordAccounting ==
    /\ Len(resultado) = (IF pc = "insertar" THEN k - 1 ELSE Len(lote))
    /\ \A n \in 1..Len(resultado) :
          /\ resultado[n] \in Resultados
          /\ resultado[n] = "descartado" <=>
                (IF lote[n].dato.dict THEN ~ValorNumerico(lote[n].dato) ELSE FALSE)
    /\ registros_insertados = Cuenta("insertado")
    /\ registros_fallidos = Cuenta("fallido")
    /\ registros_insertados + registros_fallidos + Cuenta("descartado") = Len(resultado)
    /\ pc = "insertar" =>
          /\ registros_insertados = Len(tabla[tipo]) - filas_previas
          /\ registros_insertados = Cardinality(FilasDelLote)

\* a call has ended with a record of each outcome
AccountingWitness ==
    /\ pc = "bucle"
    /\ Len(lote) >= 3
    /\ Len(resultado) = Len(lote)
    /\ registros_insertados >= 1
    /\ registros_fallidos >= 1
    /\ Cuenta("descartado") >= 1

(***************************************************************************)
(* C17  Fatal failures and connection lifetime: a run whose database       *)
(* connection fails ends at once, without an FTP session and without a     *)
(* row; a run whose FTP connect or login fails retrieves no file and       *)
(* persists no row; a connection that was opened is closed by the step     *)
(* that ends the run, is closed once, and no record is inserted or         *)
(* refused unless the connection is open.                                  *)
(***************************************************************************)
\* positions of main between conectar_bd and the end of the run
EnMain == pc \notin {"inicio", "fin", "fin_error"}

\* nothing of the remote tree was touched by run c
SinSesionFTP(c) ==
    /\ \A t \in Tipos : TocadosDe(c, t) = {}
    /\ ~\E f \in descargados : f[1] = c

\* no row was committed by run c
SinFilas(c) == \A t \in Tipos : FilasDe(c, t) = {}

EstadoDeConexion ==
    /\ <<corrida, "bd">> \in inyectados =>
          /\ pc = "fin"
          /\ conn = "ninguna"
          /\ cwd = <<>>
          /\ SinSesionFTP(corrida)
          /\ SinFilas(corrida)
    /\ <<corrida, "ftp">> \in inyectados =>
          /\ pc \in {"error_general", "fin_error"}
          /\ SinSesionFTP(corrida)
          /\ SinFilas(corrida)
    /\ EnMain => conn = "abierta"
    /\ Terminada =>
          conn = (IF <<corrida, "bd">> \in inyectados THEN "ninguna" ELSE "cerrada")

\* the step closes the connection
Cierra == conn # "cerrada" /\ conn' = "cerrada"

\* the step inserts a record or has its INSERT refused
Inserta == persistidos' # persistidos \/ rechazados' # rechazados \/ tabla' # tabla

PasoDeConexion ==
    /\ Cierra => (conn = "abierta" /\ EnMain /\ pc' \in {"fin", "fin_error"})
    /\ conn = "cerrada" => (conn' = "cerrada" \/ corrida' = corrida + 1)
    /\ Inserta => (conn = "abierta" /\ conn' = "abierta")

ConnectionLifetime ==
    /\ []EstadoDeConexion
    /\ [][PasoDeConexion]_vars

\* a run that committed rows of caudales and was then ended by a failed
\* listing has closed its connection
ConnectionWitness ==
    /\ pc = "fin_error"
    /\ conn = "cerrada"
    /\ <<corrida, "listar">> \in inyectados
    /\ FilasDe(corrida, "caudales") # {}

====
